---- MODULE Spec2Model ----
(***************************************************************************)
(* Minimum heat-loss path (day17): Dijkstra over the augmented states      *)
(* (coords, direction, run_length) of a grid of digit costs.               *)
(* The state machine is a call of heat_loss, and a second one after it;    *)
(* one step is one iteration of its `while let Some(..) = heap.pop()` loop.*)
(* Main is the run of main: the grid read from standard input, then the    *)
(* call of heat_loss on it.                                                *)
(***************************************************************************)
EXTENDS Integers, Sequences, FiniteSets, TLC

(* ------------------------------ bounds -------------------------------- *)
MaxRows == 3
MaxCols == 3
\* grids of more than MaxCells cells are explored only with one cost in every cell
MaxCells == 9
MaxMinRun == 2
MaxRun == 2
\* the lines of standard input main is explored with
MaxLines == 2
MaxLineLen == 2

(* ------------------------- program constants -------------------------- *)
\* main: Part1 is heat_loss(&grid, 0, 3), Part2 is heat_loss(&grid, 4, 10)
Part1MinRun == 0
Part1MaxRun == 3
Part2MinRun == 4
Part2MaxRun == 10

(* ------------------------------- Grid --------------------------------- *)
\* char::to_digit(10): Some(digit), or None for any other character (the empty set)
to_digit(c) ==
    CASE c = "0" -> {0} [] c = "1" -> {1} [] c = "2" -> {2} [] c = "3" -> {3}
      [] c = "4" -> {4} [] c = "5" -> {5} [] c = "6" -> {6} [] c = "7" -> {7}
      [] c = "8" -> {8} [] c = "9" -> {9}
      [] OTHER -> {}

\* fn row: the digits of a line, or Err(ParseValError) if a character is no digit
row(inp) ==
    IF \E i \in 1 .. Len(inp) : to_digit(inp[i]) = {}
      THEN [ok |-> FALSE, val |-> <<>>]
      ELSE [ok |-> TRUE,
            val |-> [i \in 1 .. Len(inp) |-> CHOOSE v \in to_digit(inp[i]) : TRUE]]

\* fn grid: the rows of the lines in order, or the error of a row; the rows are
\* collected as they come, whatever their lengths
grid_of(lines) ==
    IF \E i \in 1 .. Len(lines) : ~row(lines[i]).ok
      THEN [ok |-> FALSE, val |-> <<>>]
      ELSE [ok |-> TRUE, val |-> [i \in 1 .. Len(lines) |-> row(lines[i]).val]]

\* type Grid = Vec<Vec<u32>>: a sequence of rows; the code's indices are 0-based
Rows(g) == Len(g)
Cols(g) == Len(g[1])
Cell(g, coords) == g[coords[1] + 1][coords[2] + 1]

\* whether grid[coords.0][coords.1] is inside both Vecs; outside, the index panics
InRange(g, coords) ==
    /\ coords[1] < Len(g)
    /\ coords[2] < Len(g[coords[1] + 1])

\* usize::MAX stands in the model as a number above every index a search can
\* hold (2^64 - 1 is beyond TLC's integers); it is only ever compared with indices
UsizeMax == 2^30

\* n - 1 on usize where the subtraction wraps (a build without overflow checks;
\* with them 0 - 1 panics, which is the action Overflow)
Last(n) == IF n = 0 THEN UsizeMax ELSE n - 1

(* ----------------------------- Direction ------------------------------ *)
Direction == {"North", "South", "East", "West"}

turn_left(d) ==
    CASE d = "North" -> "West"
      [] d = "South" -> "East"
      [] d = "East" -> "North"
      [] d = "West" -> "South"

\* turn_right with the arm of East giving West
turn_right_about(d) ==
    CASE d = "North" -> "East"
      [] d = "South" -> "West"
      [] d = "East" -> "West"
      [] d = "West" -> "North"

turn_right(d) ==
    CASE d = "North" -> "East"
      [] d = "South" -> "West"
      [] d = "East" -> "South"
      [] d = "West" -> "North"

\* try_move with the South arm one off: r <= grid.len() - 1
try_move_past_edge(g, coords, d) ==
    LET r == coords[1]
        c == coords[2]
    IN  CASE d = "North" /\ r > 0 -> {<<r - 1, c>>}
          [] d = "South" /\ r <= Len(g) - 1 -> {<<r + 1, c>>}
          [] d = "East" /\ c < Len(g[1]) - 1 -> {<<r, c + 1>>}
          [] d = "West" /\ c > 0 -> {<<r, c - 1>>}
          [] OTHER -> {}

\* Option<Coords>: the set holding the new coordinates, or the empty set for None
try_move(g, coords, d) ==
    LET r == coords[1]
        c == coords[2]
    IN  CASE d = "North" /\ r > 0 -> {<<r - 1, c>>}
          [] d = "South" /\ r < Last(Rows(g)) -> {<<r + 1, c>>}
          [] d = "East" /\ c < Last(Cols(g)) -> {<<r, c + 1>>}
          [] d = "West" /\ c > 0 -> {<<r, c - 1>>}
          [] OTHER -> {}

(* ------------------------------- State -------------------------------- *)
State(coords, d, n) == [coords |-> coords, direction |-> d, run_length |-> n]

\* #[derive(PartialOrd, Ord)] on Direction: the order of the variants
DirRank(d) ==
    CASE d = "North" -> 0
      [] d = "South" -> 1
      [] d = "East" -> 2
      [] d = "West" -> 3

\* #[derive(PartialOrd, Ord)] on State: coords, then direction, then run_length
StateLess(s, t) ==
    \/ s.coords[1] < t.coords[1]
    \/ /\ s.coords[1] = t.coords[1]
       /\ s.coords[2] < t.coords[2]
    \/ /\ s.coords = t.coords
       /\ DirRank(s.direction) < DirRank(t.direction)
    \/ /\ s.coords = t.coords
       /\ s.direction = t.direction
       /\ s.run_length < t.run_length

\* the order of the heap's (cost, state) tuples
EntryLess(e, f) ==
    \/ e[1] < f[1]
    \/ /\ e[1] = f[1]
       /\ StateLess(e[2], f[2])

\* the pop of a heap whose entries are not wrapped in Reverse: the greatest tuple
HeapMax(h) == CHOOSE e \in h : \A f \in h : f = e \/ EntryLess(f, e)

\* BinaryHeap<Reverse<(u32, State)>>::pop: the least (cost, state) tuple. The
\* heap is a set: a state is pushed only with a cost below every cost it was
\* pushed with before, so no tuple is ever in the heap twice.
HeapMin(h) == CHOOSE e \in h : \A f \in h : f = e \/ EntryLess(e, f)

(* ----------------------------- heat_loss ------------------------------ *)
StartState == State(<<0, 0>>, "East", 0)

\* the locals of heat_loss before the loop: best.insert(state, 0); heap.push((0, state))
Start ==
    [heap |-> {<<0, StartState>>},
     best |-> (StartState :> 0),
     pc |-> "loop",
     popped |-> <<>>,
     result |-> [kind |-> "None", value |-> 0]]

Target(g) == <<Last(Rows(g)), Last(Cols(g))>>

\* the goal test without its run_length condition
IsGoalAnyRun(g, mn, s) == s.coords = <<Len(g) - 1, Len(g[1]) - 1>>

\* the goal test one step short of min_run_length
IsGoalOneShort(g, mn, s) ==
    s.coords = <<Len(g) - 1, Len(g[1]) - 1>> /\ s.run_length + 1 >= mn

\* the test of the loop's first branch: the popped state is a goal
IsGoal(g, mn, s) == s.coords = Target(g) /\ s.run_length >= mn

\* the test of the second branch: the popped entry is stale
IsStale(best, e) == e[1] > best[e[2]]

\* possible with the left turn pushed twice and the right turn never
PossibleLeftTwice(s, mn, mx) ==
    (IF s.run_length = 0 \/ s.run_length >= mn
       THEN <<<<turn_left(s.direction), 1>>, <<turn_left(s.direction), 1>>>>
       ELSE <<>>)
    \o (IF s.run_length < mx
          THEN <<<<s.direction, s.run_length + 1>>>>
          ELSE <<>>)

\* possible with the straight step allowed up to and including max_run_length
PossibleOneTooLong(s, mn, mx) ==
    (IF s.run_length = 0 \/ s.run_length >= mn
       THEN <<<<turn_left(s.direction), 1>>, <<turn_right(s.direction), 1>>>>
       ELSE <<>>)
    \o (IF s.run_length <= mx
          THEN <<<<s.direction, s.run_length + 1>>>>
          ELSE <<>>)

\* possible with the turns pushed whatever the run_length
PossibleTurnsAnytime(s, mn, mx) ==
    <<<<turn_left(s.direction), 1>>, <<turn_right(s.direction), 1>>>>
    \o (IF s.run_length < mx
          THEN <<<<s.direction, s.run_length + 1>>>>
          ELSE <<>>)

\* the vector `possible` of (direction, run_length) pairs, in push order
Possible(s, mn, mx) ==
    (IF s.run_length = 0 \/ s.run_length >= mn
       THEN <<<<turn_left(s.direction), 1>>, <<turn_right(s.direction), 1>>>>
       ELSE <<>>)
    \o (IF s.run_length < mx
          THEN <<<<s.direction, s.run_length + 1>>>>
          ELSE <<>>)

\* the comparison turned round, > in place of <
ImprovesIfWorse(b, s, new_cost) == s \notin DOMAIN b \/ new_cost > b[s]

\* the comparison with <= in place of <
ImprovesOrEqual(b, s, new_cost) == s \notin DOMAIN b \/ new_cost <= b[s]

\* heat_loss < *best.entry(state).or_insert(u32::MAX): a state with no entry gets
\* u32::MAX, above every sum of digits the bounded grids can reach (2^32 - 1 is
\* beyond TLC's integers, so the missing entry is tested for instead)
Improves(b, s, new_cost) == s \notin DOMAIN b \/ new_cost < b[s]

\* the pass that takes the cell's cost alone, not added to heat_loss
RelaxOneNotAdded(g, cost, s, p, hb) ==
    LET moved == try_move(g, s.coords, p[1])
    IN  IF moved = {}
          THEN hb
          ELSE LET coords == CHOOSE x \in moved : TRUE
               IN  IF ~InRange(g, coords)
                     THEN [hb EXCEPT !.panicked = TRUE]
                     ELSE LET new_cost == Cell(g, coords)
                              new_state == State(coords, p[1], p[2])
                          IN  IF Improves(hb.best, new_state, new_cost)
                                THEN [hb EXCEPT
                                        !.heap = @ \cup {<<new_cost, new_state>>},
                                        !.best = (new_state :> new_cost) @@ @]
                                ELSE hb

\* the pass that adds the cost of the cell left, not of the cell entered
RelaxOneChargesLeft(g, cost, s, p, hb) ==
    LET moved == try_move(g, s.coords, p[1])
    IN  IF moved = {}
          THEN hb
          ELSE LET coords == CHOOSE x \in moved : TRUE
               IN  IF ~InRange(g, coords)
                     THEN [hb EXCEPT !.panicked = TRUE]
                     ELSE LET new_cost == cost + Cell(g, s.coords)
                              new_state == State(coords, p[1], p[2])
                          IN  IF Improves(hb.best, new_state, new_cost)
                                THEN [hb EXCEPT
                                        !.heap = @ \cup {<<new_cost, new_state>>},
                                        !.best = (new_state :> new_cost) @@ @]
                                ELSE hb

\* the pass that pushes the entry and leaves best as it was
RelaxOnePushOnly(g, cost, s, p, hb) ==
    LET moved == try_move(g, s.coords, p[1])
    IN  IF moved = {}
          THEN hb
          ELSE LET coords == CHOOSE x \in moved : TRUE
               IN  IF ~InRange(g, coords)
                     THEN [hb EXCEPT !.panicked = TRUE]
                     ELSE LET new_cost == cost + Cell(g, coords)
                              new_state == State(coords, p[1], p[2])
                          IN  IF Improves(hb.best, new_state, new_cost)
                                THEN [hb EXCEPT
                                        !.heap = @ \cup {<<new_cost, new_state>>}]
                                ELSE hb

\* one pass of the body of `for (direction, run_length) in possible`; hb is the
\* heap and best the pass works on, and whether indexing the grid panicked
RelaxOne(g, cost, s, p, hb) ==
    LET moved == try_move(g, s.coords, p[1])
    IN  IF moved = {}
          THEN hb
          ELSE LET coords == CHOOSE x \in moved : TRUE
               IN  IF ~InRange(g, coords)
                     THEN [hb EXCEPT !.panicked = TRUE]
                     ELSE LET new_cost == cost + Cell(g, coords)
                              new_state == State(coords, p[1], p[2])
                          IN  IF Improves(hb.best, new_state, new_cost)
                                THEN [hb EXCEPT
                                        !.heap = @ \cup {<<new_cost, new_state>>},
                                        !.best = (new_state :> new_cost) @@ @]
                                ELSE hb

\* the for loop over possible; a panic ends it
RECURSIVE RelaxAll(_, _, _, _, _)
RelaxAll(g, cost, s, ps, hb) ==
    IF ps = <<>> \/ hb.panicked
      THEN hb
      ELSE RelaxAll(g, cost, s, Tail(ps), RelaxOne(g, cost, s, Head(ps), hb))

\* how the call ends when heap.pop() gives None: the unreachable!() after the loop
\* panics; the function's type, -> u32, has no failure value to return instead
Unreachable == [kind |-> "Panic", value |-> 0]

\* the panic of an index past the end of a Vec: grid[0] of a grid with no rows,
\* or grid[coords.0][coords.1] past the end of a shorter row
OutOfBoundsPanic == [kind |-> "IndexOutOfBounds", value |-> 0]

\* the panic of 0 - 1 on usize in a build with overflow checks
OverflowPanic == [kind |-> "Overflow", value |-> 0]

\* one iteration of the loop, or the unreachable!() after it when the heap is empty;
\* popped is the entry the iteration took from the heap. The goal test indexes
\* grid[0], which panics on a grid with no rows.
Iterate(cf, g, mn, mx) ==
    IF cf.heap = {}
      THEN [cf EXCEPT !.pc = "done", !.result = Unreachable]
      ELSE LET e == HeapMin(cf.heap)
               rest == cf.heap \ {e}
           IN  IF g = <<>>
                 THEN [cf EXCEPT !.heap = rest, !.pc = "done", !.popped = e,
                                 !.result = OutOfBoundsPanic]
                 ELSE IF IsGoal(g, mn, e[2])
                 THEN [cf EXCEPT !.heap = rest, !.pc = "done", !.popped = e,
                                 !.result = [kind |-> "Ok", value |-> e[1]]]
                 ELSE IF IsStale(cf.best, e)
                        THEN [cf EXCEPT !.heap = rest, !.popped = e]
                        ELSE LET hb == RelaxAll(g, e[1], e[2], Possible(e[2], mn, mx),
                                                [heap |-> rest, best |-> cf.best,
                                                 panicked |-> FALSE])
                             IN  IF hb.panicked
                                   THEN [cf EXCEPT !.heap = hb.heap, !.best = hb.best,
                                                   !.pc = "done", !.popped = e,
                                                   !.result = OutOfBoundsPanic]
                                   ELSE [cf EXCEPT !.heap = hb.heap, !.best = hb.best,
                                                   !.popped = e]

RECURSIVE Loop(_, _, _, _)
Loop(cf, g, mn, mx) ==
    IF cf.pc = "done" THEN cf ELSE Loop(Iterate(cf, g, mn, mx), g, mn, mx)

\* the value of a whole call: what it returns, or that it panicked
heat_loss(g, mn, mx) == Loop(Start, g, mn, mx).result

(* --------------------------- the state machine ------------------------ *)
\* input: the lines of standard input not yet read
VARIABLES input, grid, min_run_length, max_run_length, heap, best, pc, popped,
          result, calls, prev

\* the other programs of the repository, each the record of its own state
VARIABLES day10, day14, day16, day20, day21

\* a program that is not running
Idle == [pc |-> "idle"]

others17 == <<day10, day14, day16, day20, day21>>

vars17 ==
    <<input, grid, min_run_length, max_run_length, heap, best, pc, popped, result,
      calls, prev>>

vars == <<vars17, others17>>

\* day17 is not running
Idle17 ==
    /\ input = <<>>
    /\ grid = <<>>
    /\ min_run_length = 0
    /\ max_run_length = 0
    /\ heap = {}
    /\ best = <<>>
    /\ pc = "idle"
    /\ popped = <<>>
    /\ result = [kind |-> "None", value |-> 0]
    /\ calls = 0
    /\ prev = [kind |-> "None", value |-> 0]

OthersIdle17 ==
    /\ day10 = Idle
    /\ day14 = Idle
    /\ day16 = Idle
    /\ day20 = Idle
    /\ day21 = Idle

\* the cell costs explored, two of the digits row() parses
Cost == {0, 1}

Uniform(g) == \A r \in 1 .. Len(g) : \A c \in 1 .. Len(g[r]) : g[r][c] = g[1][1]

\* the rectangular grids of digits the parser can hand over, within the bounds
Grids ==
    UNION {{g \in [1 .. r -> [1 .. c -> Cost]] : r * c <= MaxCells \/ Uniform(g)} :
           <<r, c>> \in (1 .. MaxRows) \X (1 .. MaxCols)}

\* a max_run_length no run on a grid within the bounds can reach
Unconstrained == MaxRows * MaxCols

\* the (min_run_length, max_run_length) pairs a caller passes, 0 <= min <= max:
\* the small ones, no limit at all, and the two pairs main passes
RunPairs ==
    {p \in (0 .. MaxMinRun) \X (0 .. MaxRun) : p[1] <= p[2]}
      \cup {<<0, Unconstrained>>}
      \cup {<<Part1MinRun, Part1MaxRun>>, <<Part2MinRun, Part2MaxRun>>}

cfg == [heap |-> heap, best |-> best, pc |-> pc, popped |-> popped, result |-> result]

\* heat_loss has just been called on a rectangular grid
Init ==
    /\ input = <<>>
    /\ grid \in Grids
    /\ \E p \in RunPairs : min_run_length = p[1] /\ max_run_length = p[2]
    /\ heap = Start.heap
    /\ best = Start.best
    /\ pc = Start.pc
    /\ popped = Start.popped
    /\ result = Start.result
    /\ calls = 1
    /\ prev = Start.result
    /\ OthersIdle17

Step ==
    LET nxt == Iterate(cfg, grid, min_run_length, max_run_length)
    IN  /\ heap' = nxt.heap
        /\ best' = nxt.best
        /\ pc' = nxt.pc
        /\ popped' = nxt.popped
        /\ result' = nxt.result
        /\ UNCHANGED <<input, grid, min_run_length, max_run_length, calls, prev>>
        /\ UNCHANGED others17

\* the popped entry is a goal: return heat_loss
Return ==
    /\ pc = "loop"
    /\ heap # {}
    /\ grid # <<>>
    /\ IsGoal(grid, min_run_length, HeapMin(heap)[2])
    /\ Step

\* the popped entry is no goal: skip it if stale, else push its successors, up to
\* one whose cell is past the end of its row, where the index panics
Relax ==
    /\ pc = "loop"
    /\ heap # {}
    /\ grid # <<>>
    /\ ~IsGoal(grid, min_run_length, HeapMin(heap)[2])
    /\ Step

\* the goal test indexes grid[0] of a grid with no rows and panics
OutOfBounds ==
    /\ pc = "loop"
    /\ heap # {}
    /\ grid = <<>>
    /\ Step

\* a build with overflow checks: grid.len() - 1 or grid[0].len() - 1 of the goal
\* test panics in the first iteration when the grid has no row or its first row
\* no cell; a build without them goes on with the wrapped value
Overflow ==
    /\ pc = "loop"
    /\ heap # {}
    /\ popped = <<>>
    /\ IF grid = <<>> THEN TRUE ELSE grid[1] = <<>>
    /\ pc' = "done"
    /\ result' = OverflowPanic
    /\ UNCHANGED <<input, grid, min_run_length, max_run_length, heap, best, popped,
                   calls, prev>>
    /\ UNCHANGED others17

\* heap.pop() gave None: unreachable!()
Exhausted ==
    /\ pc = "loop"
    /\ heap = {}
    /\ Step

\* a call that finds the best table of the call before it
CallKeepingBest ==
    /\ pc = "done"
    /\ calls = 1
    /\ calls' = 2
    /\ prev' = result
    /\ heap' = Start.heap
    /\ best' = Start.best @@ best
    /\ pc' = Start.pc
    /\ popped' = Start.popped
    /\ result' = Start.result
    /\ UNCHANGED <<input, grid, min_run_length, max_run_length>>
    /\ UNCHANGED others17

\* heat_loss is called a second time on the same grid and parameters: heap and
\* best are locals, made anew by each call
Call ==
    /\ pc = "done"
    /\ calls = 1
    /\ calls' = 2
    /\ prev' = result
    /\ heap' = Start.heap
    /\ best' = Start.best
    /\ pc' = Start.pc
    /\ popped' = Start.popped
    /\ result' = Start.result
    /\ UNCHANGED <<input, grid, min_run_length, max_run_length>>
    /\ UNCHANGED others17

Next == Return \/ Relax \/ Exhausted \/ Call

Spec == Init /\ [][Next]_vars

\* one call alone
NextOnce == Return \/ Relax \/ Exhausted

Once == Init /\ [][NextOnce]_vars

(* -------------------------------- main -------------------------------- *)
\* the characters explored: two digits and a character that is no digit
Chars == {"0", "1", "x"}

Lines == UNION {[1 .. n -> Chars] : n \in 0 .. MaxLineLen}

\* what stdin().lock().lines() can yield, within the bounds
Inputs == UNION {[1 .. n -> Lines] : n \in 0 .. MaxLines}

ParseValError == [kind |-> "Err", value |-> 0]

\* main has parsed its arguments and is about to read the grid
InitMain ==
    /\ input \in Inputs
    /\ grid = <<>>
    /\ \E p \in {<<Part1MinRun, Part1MaxRun>>, <<Part2MinRun, Part2MaxRun>>} :
         min_run_length = p[1] /\ max_run_length = p[2]
    /\ heap = {}
    /\ best = <<>>
    /\ pc = "parse"
    /\ popped = Start.popped
    /\ result = Start.result
    /\ calls = 0
    /\ prev = Start.result
    /\ OthersIdle17

\* let grid = grid(stdin().lock())?; then the call of heat_loss on it up to its
\* loop. collect() stops reading at the first line that fails.
ReadGrid ==
    /\ pc = "parse"
    /\ LET parsed == grid_of(input)
       IN  IF parsed.ok
             THEN /\ grid' = parsed.val
                  /\ input' = <<>>
                  /\ heap' = Start.heap
                  /\ best' = Start.best
                  /\ pc' = Start.pc
                  /\ calls' = 1
                  /\ UNCHANGED result
             ELSE LET bad == CHOOSE i \in 1 .. Len(input) :
                               /\ ~row(input[i]).ok
                               /\ \A j \in 1 .. i - 1 : row(input[j]).ok
                  IN  /\ input' = SubSeq(input, bad + 1, Len(input))
                      /\ pc' = "done"
                      /\ result' = ParseValError
                      /\ UNCHANGED <<grid, heap, best, calls>>
    /\ UNCHANGED <<min_run_length, max_run_length, popped, prev>>
    /\ UNCHANGED others17

NextMain == ReadGrid \/ Overflow \/ Return \/ Relax \/ Exhausted \/ OutOfBounds

Main == InitMain /\ [][NextMain]_vars

(* ------------------------ reference definitions ----------------------- *)
\* What the properties below speak of (paths and their costs), defined without
\* the heap: least fixpoints over the grid, every node relaxed in every round.

Cells(g) == Rows(g) * Cols(g)

Coords(g) == (0 .. Rows(g) - 1) \X (0 .. Cols(g) - 1)

Opposite(d) ==
    CASE d = "North" -> "South"
      [] d = "South" -> "North"
      [] d = "East" -> "West"
      [] d = "West" -> "East"

\* the cell a step in direction d arrives from; it may lie off the grid
Before(coords, d) ==
    CASE d = "North" -> <<coords[1] + 1, coords[2]>>
      [] d = "South" -> <<coords[1] - 1, coords[2]>>
      [] d = "East" -> <<coords[1], coords[2] - 1>>
      [] d = "West" -> <<coords[1], coords[2] + 1>>

\* the least of a set of costs in which -1 stands for "no path"
Least(S) ==
    LET real == S \ {-1}
    IN  IF real = {} THEN -1 ELSE CHOOSE x \in real : \A y \in real : x <= y

Plus(d, w) == IF d = -1 THEN -1 ELSE d + w

\* the longest run a grid has room for
Room(g) == IF Rows(g) > Cols(g) THEN Rows(g) - 1 ELSE Cols(g) - 1

\* where a path can stand after its last step: the cell, the direction of the
\* step and the length of the run it ends, never longer than max_run
PathEnds(g, mx) ==
    {n \in Coords(g) \X Direction \X (1 .. (IF mx < Room(g) THEN mx ELSE Room(g))) :
       Before(n[1], n[2]) \in Coords(g)}

\* the path ends one step before n: the same run one shorter, or a turn (never a
\* reversal) after a run of at least min_run
PathPreds(g, mn, n) ==
    IF n[3] > 1
      THEN {<<Before(n[1], n[2]), n[2], n[3] - 1>>}
      ELSE {<<Before(n[1], n[2]), q[1], q[2]>> :
              q \in {q \in (Direction \ {n[2], Opposite(n[2])}) \X (1 .. Room(g)) :
                       q[2] >= mn}}

\* one round: the least cost of a compliant path to each path end, from the least
\* costs D of shorter ones; a first step leaves (0,0) in any direction
PathRound(g, mn, D) ==
    [n \in DOMAIN D |->
       Least({D[n]}
             \cup {Plus(D[p], Cell(g, n[1])) : p \in PathPreds(g, mn, n) \cap DOMAIN D}
             \cup (IF n[3] = 1 /\ Before(n[1], n[2]) = <<0, 0>>
                     THEN {Cell(g, n[1])}
                     ELSE {}))]

RECURSIVE PathCosts(_, _, _)
PathCosts(g, mn, D) ==
    LET E == PathRound(g, mn, D)
    IN  IF E = D THEN D ELSE PathCosts(g, mn, E)

\* the least sum of the costs of the cells entered, over the paths from (0,0) to
\* the bottom-right cell that never reverse, never run longer than max_run, turn
\* only after min_run steps (or at the start) and end with a run of at least
\* min_run; -1 when there is no such path. The empty path ends a run of 0.
CompliantMin(g, mn, mx) ==
    LET D == PathCosts(g, mn, [n \in PathEnds(g, mx) |-> -1])
    IN  Least({D[n] : n \in {m \in DOMAIN D : m[1] = Target(g) /\ m[3] >= mn}}
              \cup (IF Target(g) = <<0, 0>> /\ mn = 0 THEN {0} ELSE {}))

\* plain shortest paths over the cells alone, any of the four steps at any time
PlainRound(g, D) ==
    [c \in DOMAIN D |->
       Least({D[c]}
             \cup {Plus(D[Before(c, d)], Cell(g, c)) :
                     d \in {x \in Direction : Before(c, x) \in DOMAIN D}})]

RECURSIVE PlainCosts(_, _)
PlainCosts(g, D) ==
    LET E == PlainRound(g, D)
    IN  IF E = D THEN D ELSE PlainCosts(g, E)

PlainMin(g) ==
    PlainCosts(g, [c \in Coords(g) |-> IF c = <<0, 0>> THEN 0 ELSE -1])[Target(g)]

Ok(v) == [kind |-> "Ok", value |-> v]

Done == pc = "done"

(* ------------------------------ properties ---------------------------- *)

\* C1: whenever a compliant path exists (never reversing, no run longer than
\* max_run, turns only after min_run steps or at the start, a last run of at
\* least min_run), heat_loss returns exactly the least cost of such a path.
C1_ReturnsLeastCompliantCost ==
    Done =>
      LET least == CompliantMin(grid, min_run_length, max_run_length)
      IN  least # -1 => result = Ok(least)

\* a call returned the cost of a compliant path that had to pass over a cheaper
\* path breaking the run rules
C1_Witness ==
    /\ Done
    /\ result.kind = "Ok"
    /\ result.value = CompliantMin(grid, min_run_length, max_run_length)
    /\ result.value > PlainMin(grid)
    /\ min_run_length > 0

\* C2 (as stated): a search whose frontier runs empty hands its caller a typed
\* failure value; it does not panic.
C2_ExhaustionIsTypedFailure == (Done /\ result.kind # "Ok") => result.kind = "Err"

\* the longest run a search can record: a first step is a run of 1 even when
\* max_run is 0
RunCap(mx) == IF mx > 0 THEN mx ELSE 1

\* every state a search can hold: a cell, a direction and a run_length
InAllStates(g, mx, s) ==
    /\ s.coords \in Coords(g)
    /\ s.direction \in Direction
    /\ s.run_length \in 0 .. RunCap(mx)

\* how many such states there are
NStates(g, mx) == Cells(g) * Cardinality(Direction) * (RunCap(mx) + 1)

RECURSIVE SumBest(_, _)
SumBest(b, S) ==
    IF S = {}
      THEN 0
      ELSE LET s == CHOOSE x \in S : TRUE
           IN  b[s] + SumBest(b, S \ {s})

\* a rank of the loop's state: the states not yet in best, the sum of the costs
\* in best, the size of the heap; each is a natural number
Rank(g, mx, b, h) ==
    <<NStates(g, mx) - Cardinality(DOMAIN b), SumBest(b, DOMAIN b), Cardinality(h)>>

LexLess(a, b) ==
    \/ a[1] < b[1]
    \/ a[1] = b[1] /\ a[2] < b[2]
    \/ a[1] = b[1] /\ a[2] = b[2] /\ a[3] < b[3]

\* C3: on every grid and for every 0 <= min_run <= max_run the loop ends after
\* finitely many pops, by a return or by an empty heap, also when the goal is
\* unreachable or cells cost 0: every iteration either ends the loop or takes
\* the rank, a triple of naturals in lexicographic order, strictly down, and best
\* never leaves the finite set of states.
C3_EveryIterationDescends ==
    [][pc = "loop"
         => \/ pc' = "done"
            \/ /\ \A s \in DOMAIN best' : InAllStates(grid, max_run_length, s)
               /\ LexLess(Rank(grid, max_run_length, best', heap'),
                          Rank(grid, max_run_length, best, heap))]_vars

\* a search over cells that all cost 0, in a grid with room to walk in circles,
\* has ended with the heap empty
C3_Witness ==
    /\ Done
    /\ result = Unreachable
    /\ Cells(grid) >= 6
    /\ \A c \in Coords(grid) : Cell(grid, c) = 0

\* C4: with min_run = 0 and max_run at least the number of cells, the result is
\* the plain shortest-path cost from (0,0) to the bottom-right cell.
C4_UnconstrainedIsPlainShortestPath ==
    (Done /\ min_run_length = 0 /\ max_run_length >= Cells(grid))
      => result = Ok(PlainMin(grid))

\* an unconstrained search of a 3 by 3 grid of mixed costs returned a cost above 0
C4_Witness ==
    /\ Done
    /\ min_run_length = 0
    /\ max_run_length >= Cells(grid)
    /\ Rows(grid) = 3 /\ Cols(grid) = 3
    /\ ~Uniform(grid)
    /\ result.kind = "Ok" /\ result.value > 0

Corridor(g) == Rows(g) = 1 \/ Cols(g) = 1

RECURSIVE SumSeq(_)
SumSeq(q) == IF q = <<>> THEN 0 ELSE Head(q) + SumSeq(Tail(q))

RECURSIVE SumRows(_)
SumRows(g) == IF g = <<>> THEN 0 ELSE SumSeq(Head(g)) + SumRows(Tail(g))

\* the sum of all cell costs except the start cell
SumButStart(g) == SumRows(g) - g[1][1]

Raised(g) ==
    {[g EXCEPT ![c[1] + 1][c[2] + 1] = @ + 1] : c \in Coords(g)}

\* C6: raising the cost of one cell never lowers the cost returned, for the same
\* min_run and max_run (the cost a first call returned, against a call on each
\* grid with one cell raised).
C6_RaisingACellNeverLowersTheCost ==
    (Done /\ calls = 1 /\ result.kind = "Ok")
      => \A g \in Raised(grid) :
           LET r == heat_loss(g, min_run_length, max_run_length)
           IN  r.kind = "Ok" => r.value >= result.value

\* a call returned a cost that raising one cell makes strictly larger
C6_Witness ==
    /\ Done
    /\ calls = 1
    /\ result.kind = "Ok"
    /\ \E g \in Raised(grid) :
         LET r == heat_loss(g, min_run_length, max_run_length)
         IN  r.kind = "Ok" /\ r.value > result.value

C9_ReturnOnlyAfterMinRun ==
    result.kind = "Ok"
      => /\ popped # <<>>
         /\ popped[2].coords = Target(grid)
         /\ popped[2].run_length >= min_run_length
         /\ result.value = popped[1]
         /\ min_run_length > 0
              => LET least == CompliantMin(grid, min_run_length, Unconstrained)
                 IN  least # -1 /\ result.value >= least

\* an entry on the target whose run of at least one step is shorter than min_run
\* was popped, and the loop went on
C9_Witness ==
    /\ pc = "loop"
    /\ popped # <<>>
    /\ popped[2].coords = Target(grid)
    /\ popped[2].run_length >= 1
    /\ popped[2].run_length < min_run_length

Ones3 == [r \in 1 .. 3 |-> [c \in 1 .. 3 |-> 1]]

\* C10: on the 3x3 grid of ones, from (0,0) to (2,2) with min_run = 0 and
\* max_run = 3, the search returns 4.
C10_ThreeByThreeOfOnes ==
    (Done /\ grid = Ones3 /\ min_run_length = 0 /\ max_run_length = 3)
      => result = Ok(4)

\* the search of the 3x3 grid of ones with min_run = 0 and max_run = 3 has ended
C10_Witness ==
    /\ Done
    /\ grid = Ones3
    /\ min_run_length = 0
    /\ max_run_length = 3
    /\ popped # <<>> /\ popped[2].coords = <<2, 2>>

\* a grid the spec's construction rejects: no rows, a row with no cells, or rows
\* of different lengths
Malformed(g) ==
    \/ g = <<>>
    \/ \E i \in 1 .. Len(g) : Len(g[i]) = 0 \/ Len(g[i]) # Len(g[1])

\* C11 (as stated): when the rows read differ in length, or there are no rows or
\* rows with no cells, building the grid fails with an error and heat_loss is never
\* called on it, so that no search indexes outside a row.
C11_MalformedGridIsRejected ==
    /\ (pc # "parse" /\ result # ParseValError /\ Malformed(grid))
         => (result.kind = "Err" /\ calls = 0)
    /\ result # OutOfBoundsPanic

\* The search with the goal test moved from the pop to the push: an entry is
\* tested when it is made, the start entry before the loop and each successor in
\* the for loop, and the first that passes is returned at once.
AtPushOne(g, mn, cost, s, p, hb) ==
    LET moved == try_move(g, s.coords, p[1])
    IN  IF moved = {}
          THEN hb
          ELSE LET coords == CHOOSE x \in moved : TRUE
                   new_cost == cost + Cell(g, coords)
                   new_state == State(coords, p[1], p[2])
               IN  IF new_state.coords = <<Len(g) - 1, Len(g[1]) - 1>>
                        /\ new_state.run_length >= mn
                     THEN [hb EXCEPT !.found = {new_cost}]
                     ELSE IF new_state \notin DOMAIN hb.best \/ new_cost < hb.best[new_state]
                            THEN [hb EXCEPT
                                    !.heap = @ \cup {<<new_cost, new_state>>},
                                    !.best = (new_state :> new_cost) @@ @]
                            ELSE hb

RECURSIVE AtPushAll(_, _, _, _, _, _)
AtPushAll(g, mn, cost, s, ps, hb) ==
    IF ps = <<>> \/ hb.found # {}
      THEN hb
      ELSE AtPushAll(g, mn, cost, s, Tail(ps), AtPushOne(g, mn, cost, s, Head(ps), hb))

\* the least entry of a heap, by cost and then by the order of the states
AtPushMin(h) == CHOOSE e \in h : \A f \in h : f = e \/ EntryLess(e, f)

RECURSIVE AtPushLoop(_, _, _, _)
AtPushLoop(g, mn, mx, hb) ==
    IF hb.found # {}
      THEN [kind |-> "Ok", value |-> CHOOSE v \in hb.found : TRUE]
      ELSE IF hb.heap = {}
             THEN Unreachable
             ELSE LET e == AtPushMin(hb.heap)
                      s == e[2]
                      ps == (IF s.run_length = 0 \/ s.run_length >= mn
                               THEN <<<<turn_left(s.direction), 1>>,
                                      <<turn_right(s.direction), 1>>>>
                               ELSE <<>>)
                            \o (IF s.run_length < mx
                                  THEN <<<<s.direction, s.run_length + 1>>>>
                                  ELSE <<>>)
                  IN  IF e[1] > hb.best[s]
                        THEN AtPushLoop(g, mn, mx, [hb EXCEPT !.heap = @ \ {e}])
                        ELSE AtPushLoop(g, mn, mx,
                                        AtPushAll(g, mn, e[1], s, ps,
                                                  [hb EXCEPT !.heap = @ \ {e}]))

heat_loss_at_push(g, mn, mx) ==
    AtPushLoop(g, mn, mx,
               [heap |-> {<<0, StartState>>},
                best |-> (StartState :> 0),
                found |-> IF Len(g) = 1 /\ Len(g[1]) = 1 /\ mn = 0 THEN {0} ELSE {}])

\* C13: testing the goal when an entry is pushed, in place of when it is popped,
\* gives the same outcome on every grid and every (min_run, max_run): the same
\* cost, or the heap empty in both.
C13_GoalTestAtPushSameResult ==
    Done => result = heat_loss_at_push(grid, min_run_length, max_run_length)

\* a search returned a cost above 0 while entries it never popped were left in its
\* heap, and the search testing at the push returns that cost
C13_Witness ==
    /\ Done
    /\ result.kind = "Ok"
    /\ result.value > 0
    /\ min_run_length > 0
    /\ heap # {}
    /\ result = heat_loss_at_push(grid, min_run_length, max_run_length)

\* the step is an iteration that expanded the entry it popped
Expands == pc = "loop" /\ pc' = "loop"

\* C14: a successor that goes straight on (the direction of the state expanded) is
\* pushed only if that state's run_length < max_run, one cell on in that direction,
\* with run_length + 1.
C14_StraightOnlyBelowMaxRun ==
    [][Expands
         => \A e \in heap' \ heap :
              e[2].direction = popped'[2].direction
                => /\ popped'[2].run_length < max_run_length
                   /\ e[2].run_length = popped'[2].run_length + 1
                   /\ e[2].coords \in try_move(grid, popped'[2].coords,
                                                popped'[2].direction)]_vars

\* a state with run_length = max_run - 1 was expanded and its straight successor,
\* with run_length = max_run, is in the heap
C14_Witness ==
    /\ pc = "loop"
    /\ popped # <<>>
    /\ popped[2].run_length >= 1
    /\ popped[2].run_length + 1 = max_run_length
    /\ \E e \in heap :
         /\ e[2].direction = popped[2].direction
         /\ e[2].run_length = max_run_length
         /\ e[2].coords \in try_move(grid, popped[2].coords, popped[2].direction)

\* C15: from a state with run_length >= 1, a successor that turns left or right is
\* pushed only if run_length >= min_run, and it has run_length 1.
C15_TurnOnlyAfterMinRun ==
    [][Expands
         => \A e \in heap' \ heap :
              (/\ popped'[2].run_length >= 1
               /\ e[2].direction \in {turn_left(popped'[2].direction),
                                       turn_right(popped'[2].direction)})
                => /\ popped'[2].run_length >= min_run_length
                   /\ e[2].run_length = 1
                   /\ e[2].coords \in try_move(grid, popped'[2].coords,
                                                e[2].direction)]_vars

\* a state whose run has just reached a min_run of 2 or more was expanded and a
\* successor that turns, with run_length 1, is in the heap
C15_Witness ==
    /\ pc = "loop"
    /\ popped # <<>>
    /\ min_run_length >= 2
    /\ popped[2].run_length = min_run_length
    /\ \E e \in heap :
         /\ e[2].direction \in {turn_left(popped[2].direction),
                                 turn_right(popped[2].direction)}
         /\ e[2].run_length = 1
         /\ e[2].coords \in try_move(grid, popped[2].coords, e[2].direction)
         /\ e[1] = popped[1] + Cell(grid, e[2].coords)

\* C16: no successor pushed has the direction opposite to that of the state
\* expanded: no step of an explored path reverses the step before it.
C16_NeverReverses ==
    [][Expands
         => \A e \in heap' \ heap :
              e[2].direction # Opposite(popped'[2].direction)]_vars

\* a state reached by a step, with the cell behind it on the grid, was expanded
\* and has successors in the heap
C16_Witness ==
    /\ pc = "loop"
    /\ popped # <<>>
    /\ popped[2].run_length >= 1
    /\ try_move(grid, popped[2].coords, Opposite(popped[2].direction)) # {}
    /\ \E e \in heap :
         /\ e[2].coords \in try_move(grid, popped[2].coords, e[2].direction)
         /\ e[2].direction # Opposite(popped[2].direction)
         /\ e[1] = popped[1] + Cell(grid, e[2].coords)

\* C17 (as stated): for every 0 <= min_run <= max_run, expanding the start state
\* (run_length 0) gives a successor with run_length 1 in each of the four
\* directions whose neighbouring cell is on the grid.
C17_StartStepsEveryWay ==
    (pc = "loop" /\ popped = <<0, StartState>>)
      => \A d \in Direction :
           \A c \in try_move(grid, StartState.coords, d) :
             /\ State(c, d, 1) \in DOMAIN best
             /\ best[State(c, d, 1)] = Cell(grid, c)

\* C18: during a search an entry of best is never removed and its cost never goes
\* up, from any iteration of the loop to the next.
C18_BestOnlyGrowsAndImproves ==
    [][pc = "loop"
         => \A s \in DOMAIN best : s \in DOMAIN best' /\ best'[s] <= best[s]]_vars

\* an iteration generated a successor that best already held at a strictly lower
\* cost, and best has kept that cost
C18_Witness ==
    /\ pc = "loop"
    /\ popped # <<>>
    /\ LET ps == Possible(popped[2], min_run_length, max_run_length)
       IN  \E i \in DOMAIN ps :
             \E c \in try_move(grid, popped[2].coords, ps[i][1]) :
               /\ State(c, ps[i][1], ps[i][2]) \in DOMAIN best
               /\ best[State(c, ps[i][1], ps[i][2])] < popped[1] + Cell(grid, c)

\* a state is finalized when best holds it and no heap entry is left for it: every
\* state enters best together with a heap entry, and an entry leaves the heap only
\* by being popped
Finalized(b, h, s) == s \in DOMAIN b /\ \A e \in h : e[2] # s

\* C19: once a state has been popped and expanded, no later iteration changes its
\* cost in best or pushes an entry for it again, so it is expanded at most once.
C19_FinalizedStaysFinalized ==
    [][Expands
         => /\ popped'[1] = best[popped'[2]]
            /\ \A s \in DOMAIN best :
                 Finalized(best, heap, s)
                   => best'[s] = best[s] /\ Finalized(best', heap', s)]_vars

\* an iteration generated a successor that was finalized before it, and the
\* successor is still finalized
C19_Witness ==
    /\ pc = "loop"
    /\ popped # <<>>
    /\ LET ps == Possible(popped[2], min_run_length, max_run_length)
       IN  \E i \in DOMAIN ps :
             \E c \in try_move(grid, popped[2].coords, ps[i][1]) :
               /\ State(c, ps[i][1], ps[i][2]) # popped[2]
               /\ Finalized(best, heap, State(c, ps[i][1], ps[i][2]))
               /\ best[State(c, ps[i][1], ps[i][2])] <= popped[1] + Cell(grid, c)

\* C20: on a rectangular grid every state in best or in the heap stands on a cell
\* of the grid, and no search ends by indexing outside the grid: a move that would
\* leave the grid gives no successor.
C20_CoordsStayOnGrid ==
    /\ \A s \in DOMAIN best : s.coords \in Coords(grid)
    /\ \A e \in heap : e[2].coords \in Coords(grid)
    /\ result # OutOfBoundsPanic

\* a state on the last column, facing East with its run not used up, was expanded:
\* its straight step leaves the grid, and the search goes on
C20_Witness ==
    /\ pc = "loop"
    /\ popped # <<>>
    /\ popped[2].direction = "East"
    /\ popped[2].coords[2] = Cols(grid) - 1
    /\ popped[2].run_length >= 1
    /\ popped[2].run_length < max_run_length
    /\ try_move(grid, popped[2].coords, "East") = {}

\* C21: at every point of a search the heap holds at most
\* rows * cols * 4 * (max_run + 1) entries, entries lazy deletion would leave
\* behind counted: there are none, no two entries of the heap are for one state.
C21_HeapWithinStateCount ==
    /\ Cardinality(heap) <= Rows(grid) * Cols(grid) * 4 * (max_run_length + 1)
    /\ \A e \in heap : \A f \in heap : e[2] = f[2] => e = f

\* a heap of ten entries or more
C21_Witness ==
    /\ pc = "loop"
    /\ Cardinality(heap) >= 10

\* C22 (as stated): for every 0 <= min_run <= max_run, every state in best or in
\* the heap has 0 <= run_length <= max_run, and only the start state has
\* run_length 0.
C22_RunLengthWithinMaxRun ==
    /\ \A s \in DOMAIN best :
         /\ s.run_length >= 0
         /\ s.run_length <= max_run_length
         /\ s.run_length = 0 => s = StartState
    /\ \A e \in heap :
         /\ e[2].run_length >= 0
         /\ e[2].run_length <= max_run_length
         /\ e[2].run_length = 0 => e[2] = StartState

\* C23: over a search the costs of the entries popped never go down: each entry
\* is popped with a cost at least that of the entry popped before it.
C23_PopsNeverGetCheaper ==
    [][(pc = "loop" /\ popped # <<>> /\ popped' # <<>>) => popped'[1] >= popped[1]]_vars

\* an entry of cost 2 or more was popped in a search that had entries of the same
\* or higher cost left
C23_Witness ==
    /\ pc = "loop"
    /\ popped # <<>>
    /\ popped[1] >= 2
    /\ \E e \in heap : e[1] > popped[1]

\* the grids that differ from g in the cost of the start cell alone
OtherStarts(g) == {[g EXCEPT ![1][1] = v] : v \in (Cost \cup {9}) \ {g[1][1]}}

\* C24: for max_run >= 1 and a grid of more than one cell, the outcome of a call
\* does not depend on the cost of the start cell: a grid that differs in that
\* cell alone gives the same outcome.
C24_StartCellIsNeverCharged ==
    (Done /\ calls = 1 /\ max_run_length >= 1 /\ Cells(grid) > 1)
      => \A g \in OtherStarts(grid) :
           heat_loss(g, min_run_length, max_run_length) = result

\* a call on a grid whose start cell costs 1 returned a cost above 0, and so does
\* the call on the grid whose start cell costs 9
C24_Witness ==
    /\ Done
    /\ calls = 1
    /\ max_run_length >= 1
    /\ Cells(grid) > 1
    /\ grid[1][1] = 1
    /\ result.kind = "Ok"
    /\ result.value > 0
    /\ heat_loss([grid EXCEPT ![1][1] = 9], min_run_length, max_run_length) = result

\* C25: every heap entry's state has an entry in best, of a cost not above the
\* heap entry's, so the lookup best.get(&state).unwrap() made on a pop finds one.
C25_HeapEntriesAreInBest ==
    \A e \in heap : e[2] \in DOMAIN best /\ best[e[2]] <= e[1]

\* an entry that is no goal was popped, looked up in best and expanded into
\* entries now in the heap
C25_Witness ==
    /\ pc = "loop"
    /\ popped # <<>>
    /\ popped[2] # StartState
    /\ popped[2] \in DOMAIN best
    /\ \E e \in heap :
         /\ e[2].coords \in try_move(grid, popped[2].coords, e[2].direction)
         /\ e[1] = popped[1] + Cell(grid, e[2].coords)
         /\ e[1] = best[e[2]]

(* ============================ day10: pipe loop ========================= *)
\* bounds of the pipe grids: at most MaxPipeRows x MaxPipeCols spaces, at most
\* MaxPipes of them other than Ground
MaxPipeRows == 3
MaxPipeCols == 3
MaxPipes == 4

\* enum GridSpace
GridSpace ==
    {"VerticalPipe", "HorizontalPipe", "NorthEastBend", "NorthWestBend",
     "SouthWestBend", "SouthEastBend", "Ground", "Start"}

\* Direction::is_vertical
is_vertical(d) == d \in {"North", "South"}

\* Direction::opposite
opposite(d) ==
    CASE d = "North" -> "South"
      [] d = "South" -> "North"
      [] d = "West" -> "East"
      [] d = "East" -> "West"

\* GridSpace::possible_connections, in the order of the vec
possible_connections(space) ==
    CASE space = "VerticalPipe" -> <<"North", "South">>
      [] space = "HorizontalPipe" -> <<"West", "East">>
      [] space = "NorthEastBend" -> <<"North", "East">>
      [] space = "NorthWestBend" -> <<"North", "West">>
      [] space = "SouthWestBend" -> <<"South", "West">>
      [] space = "SouthEastBend" -> <<"South", "East">>
      [] space = "Ground" -> <<>>
      [] space = "Start" -> <<"North", "South", "West", "East">>

Contains(q, x) == \E i \in 1 .. Len(q) : q[i] = x

\* the outcomes of the fallible functions of day10
Ok10(v) == [kind |-> "Ok", val |-> v]
OutOfBoundsError == [kind |-> "OutOfBoundsError", val |-> 0]
MissingStartError == [kind |-> "MissingStartError", val |-> 0]
IndexPanic10 == [kind |-> "IndexOutOfBounds", val |-> 0]

\* find_start: the first Start in row-major order
find_start(g) ==
    LET found == {rc \in (1 .. Len(g)) \X (1 .. MaxPipeCols + 1) :
                    rc[2] <= Len(g[rc[1]]) /\ g[rc[1]][rc[2]] = "Start"}
    IN  IF found = {}
          THEN MissingStartError
          ELSE LET f == CHOOSE x \in found :
                          \A y \in found : x[1] < y[1] \/ (x[1] = y[1] /\ x[2] <= y[2])
               IN  Ok10(<<f[1] - 1, f[2] - 1>>)

\* day10's try_move: checked_add_signed fails below 0; then the test
\* r > grid.len() || c > grid[0].len()
try_move_d10(g, coords, dir) ==
    LET dr == CASE dir = "North" -> -1 [] dir = "South" -> 1 [] OTHER -> 0
        dc == CASE dir = "West" -> -1 [] dir = "East" -> 1 [] OTHER -> 0
        r == coords[1] + dr
        c == coords[2] + dc
    IN  IF r < 0
          THEN OutOfBoundsError
          ELSE IF c < 0
                 THEN OutOfBoundsError
                 ELSE IF r > Len(g) \/ c > Len(g[1])
                        THEN OutOfBoundsError
                        ELSE Ok10(<<r, c>>)

\* the body of the for loop of connections over the directions left, for Start
RECURSIVE StartConnections(_, _, _, _)
StartConnections(g, coords, dirs, res) ==
    IF dirs = <<>>
      THEN Ok10(res)
      ELSE LET dir == Head(dirs)
               moved == try_move_d10(g, coords, dir)
           IN  IF moved.kind # "Ok"
                 THEN moved
                 ELSE IF ~InRange(g, moved.val)
                        THEN IndexPanic10
                        ELSE StartConnections(
                               g, coords, Tail(dirs),
                               IF Contains(possible_connections(Cell(g, moved.val)),
                                           opposite(dir))
                                 THEN Append(res, dir)
                                 ELSE res)

\* fn connections
connections(g, coords) ==
    IF ~InRange(g, coords)
      THEN IndexPanic10
      ELSE LET space == Cell(g, coords)
           IN  IF space = "Start"
                 THEN StartConnections(g, coords, possible_connections(space), <<>>)
                 ELSE Ok10(possible_connections(space))

\* HashMap::insert
Insert10(visited, coords, dist) ==
    [x \in DOMAIN visited \cup {coords} |-> IF x = coords THEN dist ELSE visited[x]]

\* the body of the while loop of main for one popped entry: the for loop over
\* the connections left
RECURSIVE VisitAll(_, _, _, _, _, _)
VisitAll(g, coords, dist, dirs, q, vis) ==
    IF dirs = <<>>
      THEN [kind |-> "Ok", to_visit |-> q, visited |-> vis]
      ELSE LET moved == try_move_d10(g, coords, Head(dirs))
           IN  IF moved.kind # "Ok"
                 THEN [kind |-> "OutOfBoundsError", to_visit |-> q, visited |-> vis]
                 ELSE IF moved.val \in DOMAIN vis
                        THEN VisitAll(g, coords, dist, Tail(dirs), q, vis)
                        ELSE VisitAll(g, coords, dist, Tail(dirs),
                                      Append(q, <<moved.val, dist + 1>>),
                                      Insert10(vis, moved.val, dist + 1))

\* Part2: the scan of row i from column j on, with the row's is_inside and seen
RECURSIVE ScanRow(_, _, _, _, _, _, _)
ScanRow(g, vis, i, j, is_inside, seen, total) ==
    IF j >= Len(g[i + 1])
      THEN Ok10(total)
      ELSE IF <<i, j>> \in DOMAIN vis
             THEN LET found == connections(g, <<i, j>>)
                  IN  IF found.kind # "Ok"
                        THEN found
                        ELSE LET conns == SelectSeq(found.val, is_vertical)
                             IN  IF Len(conns) >= 2
                                   THEN ScanRow(g, vis, i, j + 1, ~is_inside, seen, total)
                                   ELSE IF Len(conns) = 0
                                          THEN ScanRow(g, vis, i, j + 1, is_inside, seen, total)
                                          ELSE IF seen = "None"
                                                 THEN ScanRow(g, vis, i, j + 1, is_inside,
                                                              conns[1], total)
                                                 ELSE ScanRow(g, vis, i, j + 1,
                                                              IF seen = conns[1]
                                                                THEN is_inside
                                                                ELSE ~is_inside,
                                                              "None", total)
             ELSE ScanRow(g, vis, i, j + 1, is_inside, seen,
                          IF is_inside THEN total + 1 ELSE total)

\* Part2: the rows from i on
RECURSIVE ScanRows(_, _, _, _)
ScanRows(g, vis, i, total) ==
    IF i >= Len(g)
      THEN Ok10(total)
      ELSE LET scanned == ScanRow(g, vis, i, 0, FALSE, "None", total)
           IN  IF scanned.kind # "Ok" THEN scanned ELSE ScanRows(g, vis, i + 1, scanned.val)

\* visited.values().max()
MaxDist(vis) == CHOOSE m \in {vis[x] : x \in DOMAIN vis} : \A x \in DOMAIN vis : vis[x] <= m

vars10 == <<vars17, day14, day16, day20, day21>>

\* the grids read from stdin: rectangles of at most MaxPipeRows x MaxPipeCols
\* spaces, at most MaxPipes of them other than Ground
PipeGridOf(r, c, pipes) ==
    [i \in 1 .. r |-> [j \in 1 .. c |->
        IF <<i, j>> \in DOMAIN pipes THEN pipes[<<i, j>>] ELSE "Ground"]]

\* where the spaces other than Ground may lie in a grid of r rows and c columns
PipePlaces(r, c) ==
    {x \in SUBSET ((1 .. r) \X (1 .. c)) : Cardinality(x) <= MaxPipes}

\* main of day10 after the grid is read
Init10 ==
    /\ Idle17
    /\ day14 = Idle /\ day16 = Idle /\ day20 = Idle /\ day21 = Idle
    /\ \E r \in 1 .. MaxPipeRows, c \in 1 .. MaxPipeCols, part \in {"Part1", "Part2"} :
         \E at \in PipePlaces(r, c) :
            \E pipes \in [at -> GridSpace \ {"Ground"}] :
               day10 = [pc |-> "start", grid |-> PipeGridOf(r, c, pipes), part |-> part,
                        to_visit |-> <<>>, visited |-> <<>>,
                        result |-> [kind |-> "None", val |-> 0]]

\* main, lines 188-193: find_start and the first entry of the queue
FindStart10 ==
    /\ day10.pc = "start"
    /\ LET start == find_start(day10.grid)
       IN  day10' = IF start.kind = "Ok"
                      THEN [day10 EXCEPT !.pc = "loop",
                                         !.to_visit = <<<<start.val, 0>>>>,
                                         !.visited = Insert10(<<>>, start.val, 0)]
                      ELSE [day10 EXCEPT !.pc = "done", !.result = start]
    /\ UNCHANGED vars10

\* main, lines 195-205: one iteration of the while loop
Visit10 ==
    /\ day10.pc = "loop"
    /\ day10.to_visit # <<>>
    /\ LET coords == Head(day10.to_visit)[1]
           dist == Head(day10.to_visit)[2]
           conns == connections(day10.grid, coords)
       IN  IF conns.kind # "Ok"
             THEN day10' = [day10 EXCEPT !.pc = "done", !.to_visit = Tail(@),
                                         !.result = conns]
             ELSE LET v == VisitAll(day10.grid, coords, dist, conns.val,
                                    Tail(day10.to_visit), day10.visited)
                  IN  day10' = IF v.kind = "Ok"
                                 THEN [day10 EXCEPT !.to_visit = v.to_visit,
                                                    !.visited = v.visited]
                                 ELSE [day10 EXCEPT !.pc = "done",
                                                    !.to_visit = v.to_visit,
                                                    !.visited = v.visited,
                                                    !.result = OutOfBoundsError]
    /\ UNCHANGED vars10

\* main, lines 207-248: the queue is empty, the answer of the part is printed
Finish10 ==
    /\ day10.pc = "loop"
    /\ day10.to_visit = <<>>
    /\ day10' = [day10 EXCEPT
                   !.pc = "done",
                   !.result = IF day10.part = "Part1"
                                THEN Ok10(MaxDist(day10.visited))
                                ELSE ScanRows(day10.grid, day10.visited, 0, 0)]
    /\ UNCHANGED vars10

Next10 == FindStart10 \/ Visit10 \/ Finish10

Pipes == Init10 /\ [][Next10]_vars

InGrid10(g, coords) ==
    coords[1] >= 0 /\ coords[1] < Len(g) /\ coords[2] >= 0 /\ coords[2] < Len(g[1])

Step10(coords, dir) ==
    CASE dir = "North" -> <<coords[1] - 1, coords[2]>>
      [] dir = "South" -> <<coords[1] + 1, coords[2]>>
      [] dir = "West" -> <<coords[1], coords[2] - 1>>
      [] dir = "East" -> <<coords[1], coords[2] + 1>>

\* C26: from every cell the traversal stands on and in every direction,
\* try_move returns Ok exactly when the moved coordinate is inside the grid
\* (so Ok coordinates can be indexed and every move off a side is an
\* OutOfBoundsError), and the run never ends in an index panic
C26_TryMoveOkOnlyInsideGrid ==
    /\ day10.pc # "idle" =>
         \A coords \in DOMAIN day10.visited, dir \in Direction :
            InGrid10(day10.grid, coords) =>
              LET moved == try_move_d10(day10.grid, coords, dir)
              IN  /\ moved.kind = "Ok" <=> InGrid10(day10.grid, Step10(coords, dir))
                  /\ moved.kind = "Ok" => moved.val = Step10(coords, dir)
                  /\ moved.kind # "Ok" => moved = OutOfBoundsError
    /\ day10.pc # "idle" => day10.result # IndexPanic10

(* ============================ day14: tilting rocks ===================== *)
\* bounds of the platform (its sides and its cube-shaped rocks) and of the
\* requested number of cycles
MaxRockRows == 3
MaxRockCols == 3
MaxCubes == 1
MaxCycles == 6

\* enum Space
Space14 == {"RoundedRock", "CubeShapedRock", "Empty"}

\* the key of roll's sort_by_key
SortKey(g, coords, direction) ==
    CASE direction = "North" -> coords[1]
      [] direction = "South" -> Len(g) - coords[1]
      [] direction = "East" -> Len(g[1]) - coords[2]
      [] direction = "West" -> coords[2]

\* all_rounded_rocks, as the set of the coordinates
all_rounded_rocks(g) ==
    {rc \in (0 .. Len(g) - 1) \X (0 .. MaxRockCols) :
       rc[2] < Len(g[rc[1] + 1]) /\ g[rc[1] + 1][rc[2] + 1] = "RoundedRock"}

\* the order of the rocks after the stable sort: by key, then row-major as
\* all_rounded_rocks lists them
RockBefore(g, direction, a, b) ==
    LET ka == SortKey(g, a, direction)
        kb == SortKey(g, b, direction)
    IN  \/ ka < kb
        \/ ka = kb /\ a[1] < b[1]
        \/ ka = kb /\ a[1] = b[1] /\ a[2] <= b[2]

RECURSIVE SortedRocks(_, _, _)
SortedRocks(g, direction, rocks) ==
    IF rocks = {}
      THEN <<>>
      ELSE LET first == CHOOSE a \in rocks : \A b \in rocks : RockBefore(g, direction, a, b)
           IN  <<first>> \o SortedRocks(g, direction, rocks \ {first})

None14 == [some |-> FALSE, val |-> <<0, 0>>]
Some14(v) == [some |-> TRUE, val |-> v]

\* fn get_coord
get_coord(g, coords, direction) ==
    LET r == coords[1]
        c == coords[2]
    IN  CASE direction = "North" -> IF r = 0 THEN None14 ELSE Some14(<<r - 1, c>>)
          [] direction = "South" -> IF r + 1 = Len(g) THEN None14 ELSE Some14(<<r + 1, c>>)
          [] direction = "East" -> IF c + 1 = Len(g[1]) THEN None14 ELSE Some14(<<r, c + 1>>)
          [] direction = "West" -> IF c = 0 THEN None14 ELSE Some14(<<r, c - 1>>)

\* roll: the while loop that moves one rock as far as the spaces are Empty
RECURSIVE Slide(_, _, _)
Slide(g, coords, direction) ==
    LET new_coords == get_coord(g, coords, direction)
    IN  IF ~new_coords.some
          THEN coords
          ELSE IF Cell(g, new_coords.val) # "Empty"
                 THEN coords
                 ELSE Slide(g, new_coords.val, direction)

\* fn do_swap
do_swap(g, a, b) ==
    [g EXCEPT ![a[1] + 1][a[2] + 1] = Cell(g, b),
              ![b[1] + 1][b[2] + 1] = Cell(g, a)]

\* roll: the for loop over the sorted rocks
RECURSIVE RollRocks(_, _, _)
RollRocks(g, rocks, direction) ==
    IF rocks = <<>>
      THEN g
      ELSE LET original_coords == Head(rocks)
               coords == Slide(g, original_coords, direction)
           IN  RollRocks(IF coords # original_coords
                           THEN do_swap(g, original_coords, coords)
                           ELSE g,
                         Tail(rocks), direction)

\* fn roll
roll(g, direction) ==
    RollRocks(g, SortedRocks(g, direction, all_rounded_rocks(g)), direction)

\* the four rolls of one cycle
spin(g) == roll(roll(roll(roll(g, "North"), "West"), "South"), "East")

\* fn get_total_load
RECURSIVE get_total_load_from(_, _)
get_total_load_from(g, i) ==
    IF i >= Len(g)
      THEN 0
      ELSE (Len(g) - i) * Cardinality({j \in 1 .. Len(g[i + 1]) : g[i + 1][j] = "RoundedRock"})
           + get_total_load_from(g, i + 1)

get_total_load(g) == get_total_load_from(g, 0)

vars14 == <<vars17, day10, day16, day20, day21>>

\* the grid read from stdin with the given places of its rocks
PlatformOf(r, c, cubes, rounded) ==
    [i \in 1 .. r |-> [j \in 1 .. c |->
        IF <<i, j>> \in cubes
          THEN "CubeShapedRock"
          ELSE IF <<i, j>> \in rounded THEN "RoundedRock" ELSE "Empty"]]

\* main of day14 after the grid is read
Init14 ==
    /\ Idle17
    /\ day10 = Idle /\ day16 = Idle /\ day20 = Idle /\ day21 = Idle
    /\ \E r \in 1 .. MaxRockRows, c \in 1 .. MaxRockCols :
         \E cubes \in {x \in SUBSET ((1 .. r) \X (1 .. c)) : Cardinality(x) <= MaxCubes} :
            \E rounded \in SUBSET (((1 .. r) \X (1 .. c)) \ cubes) :
               LET g == PlatformOf(r, c, cubes, rounded)
               IN  \/ day14 = [pc |-> "part1", input |-> g, grid |-> g, cycles |-> 0,
                               i |-> 0, seen |-> <<>>, cycle_length |-> 0, result |-> -1]
                   \/ \E cycles \in 0 .. MaxCycles :
                         day14 = [pc |-> "loop", input |-> g, grid |-> g,
                                  cycles |-> cycles, i |-> 0, seen |-> <<g>>,
                                  cycle_length |-> 0, result |-> -1]

\* main, Part1 and the print
RollNorth14 ==
    /\ day14.pc = "part1"
    /\ LET g == roll(day14.grid, "North")
       IN  day14' = [day14 EXCEPT !.pc = "done", !.grid = g, !.result = get_total_load(g)]
    /\ UNCHANGED vars14

\* where seen maps the grid to: seen is the sequence of the grids after 0, 1, ...
\* cycles, all different
SeenAt(seen, g) == CHOOSE k \in 1 .. Len(seen) : seen[k] = g

\* main, lines 193-206: one iteration of the loop that looks for a repeated grid
Detect14 ==
    /\ day14.pc = "loop"
    /\ LET g == spin(day14.grid)
           i == day14.i + 1
       IN  day14' = IF Contains(day14.seen, g)
                      THEN [day14 EXCEPT !.pc = "skip", !.grid = g, !.i = i,
                                         !.cycle_length = i - (SeenAt(day14.seen, g) - 1)]
                      ELSE [day14 EXCEPT !.grid = g, !.i = i, !.seen = Append(@, g)]
    /\ UNCHANGED vars14

\* main, lines 207-209: one iteration of the loop that skips whole periods
Skip14 ==
    /\ day14.pc = "skip"
    /\ day14.i + day14.cycle_length <= day14.cycles
    /\ day14' = [day14 EXCEPT !.i = @ + day14.cycle_length]
    /\ UNCHANGED vars14

\* main, lines 210-216: one iteration of the loop that runs the cycles left
Rest14 ==
    /\ day14.pc \in {"skip", "rest"}
    /\ ~(day14.i + day14.cycle_length <= day14.cycles)
    /\ day14.i < day14.cycles
    /\ day14' = [day14 EXCEPT !.pc = "rest", !.grid = spin(@), !.i = @ + 1]
    /\ UNCHANGED vars14

\* main, line 220: both loops are over, the load is printed
Print14 ==
    /\ day14.pc \in {"skip", "rest"}
    /\ ~(day14.i + day14.cycle_length <= day14.cycles)
    /\ ~(day14.i < day14.cycles)
    /\ day14' = [day14 EXCEPT !.pc = "done", !.result = get_total_load(day14.grid)]
    /\ UNCHANGED vars14

Next14 == RollNorth14 \/ Detect14 \/ Skip14 \/ Rest14 \/ Print14

Tilt == Init14 /\ [][Next14]_vars

\* the spin cycle applied n times
RECURSIVE SpinN(_, _)
SpinN(g, n) == IF n = 0 THEN g ELSE SpinN(spin(g), n - 1)

\* C27: in part 2, for every requested number of cycles, the grid whose load
\* is printed is the input grid after exactly that many spin cycles
C27_PrintedGridIsInputAfterCycles ==
    (day14.pc = "done" /\ Len(day14.seen) > 0) =>
      /\ day14.grid = SpinN(day14.input, day14.cycles)
      /\ day14.result = get_total_load(SpinN(day14.input, day14.cycles))

(* ============================ day16: light beam ======================== *)
\* bounds of the contraption: at most MaxBeamRows x MaxBeamCols, MaxBeamCells spaces
MaxBeamRows == 2
MaxBeamCols == 2
MaxBeamCells == 4

\* enum Space
Space16 ==
    {"Empty", "MirrorUpLeft", "MirrorUpRight", "SplitterHorizontal", "SplitterVertical"}

\* enum Direction
Direction16 == {"Up", "Down", "Left", "Right"}

\* fn successor_directions
successor_directions(space, direction) ==
    CASE space = "Empty" -> <<direction>>
      [] space = "MirrorUpLeft" /\ direction = "Up" -> <<"Left">>
      [] space = "MirrorUpLeft" /\ direction = "Down" -> <<"Right">>
      [] space = "MirrorUpLeft" /\ direction = "Left" -> <<"Up">>
      [] space = "MirrorUpLeft" /\ direction = "Right" -> <<"Down">>
      [] space = "MirrorUpRight" /\ direction = "Up" -> <<"Right">>
      [] space = "MirrorUpRight" /\ direction = "Down" -> <<"Left">>
      [] space = "MirrorUpRight" /\ direction = "Left" -> <<"Down">>
      [] space = "MirrorUpRight" /\ direction = "Right" -> <<"Up">>
      [] space = "SplitterHorizontal" /\ direction \in {"Up", "Down"} -> <<"Left", "Right">>
      [] space = "SplitterHorizontal" /\ direction \in {"Left", "Right"} -> <<direction>>
      [] space = "SplitterVertical" /\ direction \in {"Up", "Down"} -> <<direction>>
      [] space = "SplitterVertical" /\ direction \in {"Left", "Right"} -> <<"Up", "Down">>

\* day16's try_move
try_move_d16(g, coords, direction) ==
    LET r == coords[1]
        c == coords[2]
    IN  CASE direction = "Up" /\ r > 0 -> Some14(<<r - 1, c>>)
          [] direction = "Down" /\ r < Len(g) - 1 -> Some14(<<r + 1, c>>)
          [] direction = "Left" /\ c > 0 -> Some14(<<r, c - 1>>)
          [] direction = "Right" /\ c < Len(g[1]) - 1 -> Some14(<<r, c + 1>>)
          [] OTHER -> None14

\* the for loop of count_energized with every successor pushed, visited or not
RECURSIVE PushAlways(_, _, _, _, _)
PushAlways(g, coords, dirs, queue, visited) ==
    IF dirs = <<>>
      THEN [queue |-> queue, visited |-> visited]
      ELSE LET new_coords == try_move_d16(g, coords, Head(dirs))
               new_state == <<new_coords.val, Head(dirs)>>
           IN  IF ~new_coords.some
                 THEN PushAlways(g, coords, Tail(dirs), queue, visited)
                 ELSE PushAlways(g, coords, Tail(dirs), Append(queue, new_state),
                                 visited \cup {new_state})

\* count_energized, lines 112-124: the for loop over the successor directions
RECURSIVE PushNew(_, _, _, _, _)
PushNew(g, coords, dirs, queue, visited) ==
    IF dirs = <<>>
      THEN [queue |-> queue, visited |-> visited]
      ELSE LET new_coords == try_move_d16(g, coords, Head(dirs))
               new_state == <<new_coords.val, Head(dirs)>>
           IN  IF ~new_coords.some
                 THEN PushNew(g, coords, Tail(dirs), queue, visited)
                 ELSE IF new_state \in visited
                        THEN PushNew(g, coords, Tail(dirs), queue, visited)
                        ELSE PushNew(g, coords, Tail(dirs), Append(queue, new_state),
                                     visited \cup {new_state})

\* main, Part2: the initial states of the rows from r on, then of the columns
RECURSIVE RowStates(_, _)
RowStates(g, r) ==
    IF r >= Len(g)
      THEN <<>>
      ELSE <<<<<<r, 0>>, "Right">>, <<<<r, Len(g[1]) - 1>>, "Left">>>> \o RowStates(g, r + 1)

RECURSIVE ColStates(_, _)
ColStates(g, c) ==
    IF c >= Len(g[1])
      THEN <<>>
      ELSE <<<<<<0, c>>, "Down">>, <<<<Len(g) - 1, c>>, "Up">>>> \o ColStates(g, c + 1)

\* the initial states main hands to count_energized
InitStates(g, part) ==
    IF part = "Part1" THEN <<<<<<0, 0>>, "Right">>>> ELSE RowStates(g, 0) \o ColStates(g, 0)

IndexPanic16 == [kind |-> "IndexOutOfBounds", val |-> 0]

vars16 == <<vars17, day10, day14, day20, day21>>

\* the grids read from stdin: no line at all, or a rectangle of at most
\* MaxBeamCells spaces
BeamGrids ==
    {<<>>} \cup
    UNION {[1 .. rc[1] -> [1 .. rc[2] -> Space16]] :
             rc \in {x \in (1 .. MaxBeamRows) \X (1 .. MaxBeamCols) :
                       x[1] * x[2] <= MaxBeamCells}}

\* main of day16 after the grid is read
Init16 ==
    /\ Idle17
    /\ day10 = Idle /\ day14 = Idle /\ day20 = Idle /\ day21 = Idle
    /\ \E g \in BeamGrids, part \in {"Part1", "Part2"} :
         day16 = [pc |-> "main", grid |-> g, part |-> part, inits |-> <<>>,
                  init_state |-> <<<<0, 0>>, "Right">>, queue |-> <<>>, visited |-> {},
                  energized |-> {}, count |-> -1, res |-> -1,
                  result |-> [kind |-> "None", val |-> 0]]

\* main, lines 135-149: the initial states of the part; Part2 reads grid[0]
Begin16 ==
    /\ day16.pc = "main"
    /\ day16' = IF day16.part = "Part2" /\ day16.grid = <<>>
                  THEN [day16 EXCEPT !.pc = "done", !.result = IndexPanic16]
                  ELSE [day16 EXCEPT !.pc = "call",
                                     !.inits = InitStates(day16.grid, day16.part)]
    /\ UNCHANGED vars16

\* count_energized, lines 106-108: the call with the next initial state
Call16 ==
    /\ day16.pc = "call"
    /\ day16.inits # <<>>
    /\ day16' = [day16 EXCEPT !.pc = "loop",
                              !.init_state = Head(day16.inits),
                              !.inits = Tail(@),
                              !.queue = <<Head(day16.inits)>>,
                              !.visited = {Head(day16.inits)},
                              !.energized = {},
                              !.count = -1]
    /\ UNCHANGED vars16

\* count_energized, lines 110-125: one iteration of the while loop
Iterate16 ==
    /\ day16.pc = "loop"
    /\ day16.queue # <<>>
    /\ LET coords == Head(day16.queue)[1]
           direction == Head(day16.queue)[2]
       IN  IF day16.grid = <<>>
             THEN day16' = [day16 EXCEPT !.pc = "done", !.queue = Tail(@),
                                         !.energized = @ \cup {coords},
                                         !.result = IndexPanic16]
             ELSE LET pushed == PushNew(day16.grid, coords,
                                        successor_directions(Cell(day16.grid, coords),
                                                             direction),
                                        Tail(day16.queue), day16.visited)
                  IN  day16' = [day16 EXCEPT !.queue = pushed.queue,
                                             !.visited = pushed.visited,
                                             !.energized = @ \cup {coords}]
    /\ UNCHANGED vars16

\* count_energized, line 127, and main's max over the calls
ReturnCount16 ==
    /\ day16.pc = "loop"
    /\ day16.queue = <<>>
    /\ LET n == Cardinality(day16.energized)
       IN  day16' = [day16 EXCEPT !.pc = "call", !.count = n,
                                  !.res = IF n > @ THEN n ELSE @]
    /\ UNCHANGED vars16

\* main, line 155: every call has returned, the result is printed
Print16 ==
    /\ day16.pc = "call"
    /\ day16.inits = <<>>
    /\ day16' = [day16 EXCEPT !.pc = "done", !.result = [kind |-> "Ok", val |-> day16.res]]
    /\ UNCHANGED vars16

Next16 == Begin16 \/ Call16 \/ Iterate16 \/ ReturnCount16 \/ Print16

Beam == Init16 /\ [][Next16]_vars

\* every beam state of a grid
BeamStates(g) == ((0 .. Len(g) - 1) \X (0 .. Len(g[1]) - 1)) \X Direction16

\* the beam states one step after state s
BeamSucc(g, s) ==
    {t \in BeamStates(g) :
       \E k \in 1 .. Len(successor_directions(Cell(g, s[1]), s[2])) :
          LET d == successor_directions(Cell(g, s[1]), s[2])[k]
              m == try_move_d16(g, s[1], d)
          IN  m.some /\ t = <<m.val, d>>}

\* the beam states reachable from the states in seen
RECURSIVE BeamClosure(_, _)
BeamClosure(g, seen) ==
    LET more == seen \cup UNION {BeamSucc(g, s) : s \in seen}
    IN  IF more = seen THEN seen ELSE BeamClosure(g, more)

\* what bounds the iterations left: two for every beam state not yet visited,
\* one for every queued state
Rank16 ==
    2 * (Cardinality(BeamStates(day16.grid)) - Cardinality(day16.visited))
      + Len(day16.queue)

NoRepeat(q) == \A i, j \in 1 .. Len(q) : i # j => q[i] # q[j]

\* C28: count_energized terminates, loops of mirrors and splitters included:
\* every iteration lowers a rank that cannot go below zero, because a beam
\* state is enqueued only when it was never visited, so at most once; and the
\* count returned is the number of distinct cells of the beam states reachable
\* from the initial state
C28_EachStateOnceAndCountIsReachableCells ==
    [][/\ (day16.pc = "loop" /\ day16'.pc = "loop") =>
            /\ Rank16' < Rank16
            /\ Rank16' >= 0
            /\ NoRepeat(day16'.queue)
            /\ \A k \in 1 .. Len(day16'.queue) :
                  \/ k <= Len(day16.queue) - 1 /\ day16'.queue[k] = day16.queue[k + 1]
                  \/ day16'.queue[k] \notin day16.visited
                       /\ day16'.queue[k] \in day16'.visited
       /\ (day16.pc = "loop" /\ day16'.pc = "call") =>
            day16'.count =
              Cardinality({s[1] : s \in BeamClosure(day16.grid, {day16.init_state})})
      ]_vars

\* a call has returned after the beam came back, around a loop, to a beam
\* state it had visited before
C28_Witness ==
    /\ day16.pc = "call"
    /\ day16.count >= 4
    /\ \E s \in day16.visited : s \in BeamClosure(day16.grid, BeamSucc(day16.grid, s))

(* ============================ day21: flood fill ======================== *)
\* bounds of the garden map (sides and number of plots) and of the step count n
MaxGardenRows == 2
MaxGardenCols == 3
MaxGardenCells == 4
MaxSteps == 2

\* the characters parse_input accepts
Chars21 == {"S", ".", "#"}

\* parse_input: the map, TRUE for a rock
map_of(lines) == [i \in 1 .. Len(lines) |-> [j \in 1 .. Len(lines[i]) |-> lines[i][j] = "#"]]

\* parse_input: start is (0, 0) unless an S is read; the last S read stays
start_of(lines) ==
    LET found == {rc \in (1 .. Len(lines)) \X (1 .. MaxGardenCols + 1) :
                    rc[2] <= Len(lines[rc[1]]) /\ lines[rc[1]][rc[2]] = "S"}
    IN  IF found = {}
          THEN <<0, 0>>
          ELSE LET l == CHOOSE x \in found :
                          \A y \in found : y[1] < x[1] \/ (y[1] = x[1] /\ y[2] <= x[2])
               IN  <<l[1] - 1, l[2] - 1>>

\* the array of directions in floodfill
Directions21 == <<"North", "South", "East", "West">>

\* fn move_p1
move_p1(map, coords, direction) ==
    LET r == coords[1]
        c == coords[2]
    IN  CASE direction = "North" /\ r > 0 -> Some14(<<r - 1, c>>)
          [] direction = "South" /\ r < Len(map) - 1 -> Some14(<<r + 1, c>>)
          [] direction = "East" /\ c < Len(map[1]) - 1 -> Some14(<<r, c + 1>>)
          [] direction = "West" /\ c > 0 -> Some14(<<r, c - 1>>)
          [] OTHER -> None14

\* fn check_p1
check_p1(map, coords) == map[coords[1] + 1][coords[2] + 1]

\* fn move_p2
move_p2(map, coords, direction) ==
    LET r == coords[1]
        c == coords[2]
    IN  CASE direction = "North" -> Some14(<<r - 1, c>>)
          [] direction = "South" -> Some14(<<r + 1, c>>)
          [] direction = "East" -> Some14(<<r, c + 1>>)
          [] direction = "West" -> Some14(<<r, c - 1>>)

\* fn check_p2: rem_euclid is % of a positive modulus
check_p2(map, coords) ==
    map[(coords[1] % Len(map)) + 1][(coords[2] % Len(map[1])) + 1]

\* the move_func and check_func main passes for the part
move_func(part, map, coords, direction) ==
    IF part = "Part1" THEN move_p1(map, coords, direction) ELSE move_p2(map, coords, direction)

check_func(part, map, coords) ==
    IF part = "Part1" THEN check_p1(map, coords) ELSE check_p2(map, coords)

\* floodfill, lines 101-118: the for loop over the directions left
RECURSIVE FillAround(_, _, _, _, _, _, _)
FillAround(part, map, coords, new_dist, dirs, distances, to_visit) ==
    IF dirs = <<>>
      THEN [distances |-> distances, to_visit |-> to_visit]
      ELSE LET new_coords == move_func(part, map, coords, Head(dirs))
           IN  IF ~new_coords.some
                 THEN FillAround(part, map, coords, new_dist, Tail(dirs), distances, to_visit)
                 ELSE IF check_func(part, map, new_coords.val)
                        THEN FillAround(part, map, coords, new_dist, Tail(dirs),
                                        distances, to_visit)
                        ELSE IF new_coords.val \in DOMAIN distances
                               THEN FillAround(part, map, coords, new_dist, Tail(dirs),
                                               distances, to_visit)
                               ELSE FillAround(part, map, coords, new_dist, Tail(dirs),
                                               Insert10(distances, new_coords.val, new_dist),
                                               Append(to_visit,
                                                      <<new_coords.val, new_dist>>))

Panic21 == [kind |-> "Panic", val |-> 0]

vars21 == <<vars17, day10, day14, day16, day20>>

\* the lines read from stdin: none, or a rectangle of at most MaxGardenCells
\* characters
GardenLines ==
    {<<>>} \cup
    UNION {[1 .. rc[1] -> [1 .. rc[2] -> Chars21]] :
             rc \in {x \in (1 .. MaxGardenRows) \X (1 .. MaxGardenCols) :
                       x[1] * x[2] <= MaxGardenCells}}

\* main of day21 before the input is read
Init21 ==
    /\ Idle17
    /\ day10 = Idle /\ day14 = Idle /\ day16 = Idle /\ day20 = Idle
    /\ \E lines \in GardenLines, n \in 0 .. MaxSteps, part \in {"Part1", "Part2"} :
         day21 = [pc |-> "parse", input |-> lines, part |-> part, n |-> n, map |-> <<>>,
                  start |-> <<0, 0>>, distances |-> <<>>, to_visit |-> <<>>,
                  result |-> [kind |-> "None", val |-> 0]]

\* main, line 127, and floodfill, lines 91-92
Parse21 ==
    /\ day21.pc = "parse"
    /\ LET start == start_of(day21.input)
       IN  day21' = [day21 EXCEPT !.pc = "loop",
                                  !.map = map_of(day21.input),
                                  !.start = start,
                                  !.distances = Insert10(<<>>, start, 0),
                                  !.to_visit = <<<<start, 0>>>>]
    /\ UNCHANGED vars21

\* floodfill, lines 94-119: one iteration of the while loop; on a map with no
\* row the moves and checks panic
Fill21 ==
    /\ day21.pc = "loop"
    /\ day21.to_visit # <<>>
    /\ LET coords == Head(day21.to_visit)[1]
           new_dist == Head(day21.to_visit)[2] + 1
       IN  IF new_dist > day21.n
             THEN day21' = [day21 EXCEPT !.to_visit = Tail(@)]
             ELSE IF day21.map = <<>>
                    THEN day21' = [day21 EXCEPT !.pc = "done", !.to_visit = Tail(@),
                                                !.result = Panic21]
                    ELSE LET f == FillAround(day21.part, day21.map, coords, new_dist,
                                             Directions21, day21.distances,
                                             Tail(day21.to_visit))
                         IN  day21' = [day21 EXCEPT !.distances = f.distances,
                                                    !.to_visit = f.to_visit]
    /\ UNCHANGED vars21

\* floodfill, line 121, and main, lines 133-137: the count of the distances of
\* the parity of n
Count21 ==
    /\ day21.pc = "loop"
    /\ day21.to_visit = <<>>
    /\ day21' = [day21 EXCEPT
                   !.pc = "done",
                   !.result = [kind |-> "Ok",
                               val |-> Cardinality({x \in DOMAIN day21.distances :
                                                     day21.distances[x] % 2 = day21.n % 2})]]
    /\ UNCHANGED vars21

Next21 == Parse21 \/ Fill21 \/ Count21

Garden == Init21 /\ [][Next21]_vars

\* the coordinates within n steps of start
Near21 ==
    (day21.start[1] - day21.n .. day21.start[1] + day21.n)
      \X (day21.start[2] - day21.n .. day21.start[2] + day21.n)

\* whether coordinate b is one step from a: a move of the part leads there and b
\* is not a rock
Step21(a, b) ==
    \E k \in 1 .. 4 :
       LET m == move_func(day21.part, day21.map, a, Directions21[k])
       IN  m.some /\ m.val = b /\ ~check_func(day21.part, day21.map, b)

\* the coordinates reachable from start in at most k steps
RECURSIVE Within21(_)
Within21(k) ==
    IF k = 0
      THEN {day21.start}
      ELSE LET before == Within21(k - 1)
           IN  before \cup {b \in Near21 : \E a \in before : Step21(a, b)}

\* whether a coordinate of the map, tiled for part 2, is a rock
Rock21(coords) ==
    IF day21.part = "Part2"
      THEN check_p2(day21.map, coords)
      ELSE IF coords[1] >= 0 /\ coords[1] < Len(day21.map)
                /\ coords[2] >= 0 /\ coords[2] < Len(day21.map[1])
             THEN check_p1(day21.map, coords)
             ELSE TRUE

\* C29: when floodfill returns, its keys are exactly the non-rock cells
\* reachable from start within max_dist steps, each mapped to the least
\* number of steps that reaches it, none above max_dist
C29_FloodfillIsMinDistanceOfNonRockCells ==
    (day21.pc = "loop" /\ day21.to_visit = <<>> /\ day21.map # <<>>) =>
      /\ \A x \in DOMAIN day21.distances : ~Rock21(x)
      /\ DOMAIN day21.distances = {x \in Within21(day21.n) : ~Rock21(x)}
      /\ \A x \in DOMAIN day21.distances :
            /\ day21.distances[x] <= day21.n
            /\ x \in Within21(day21.distances[x])
            /\ day21.distances[x] > 0 => x \notin Within21(day21.distances[x] - 1)

(* ============================ day20: pulse modules ===================== *)
\* bound of the button presses: of one call of determine_activation_period,
\* and of part 1's n
MaxPresses == 4

\* the names of the modules of the networks read
ModuleIds == {"broadcaster", "a", "b", "s", "c"}

\* what an event's source can be
Sources == ModuleIds \cup {"button"}

\* a module_spec line: broadcaster, %id or &id, then the dests
Line(id, kind, dests) == [id |-> id, kind |-> kind, dests |-> dests]

\* the inputs read from stdin: the broadcaster feeds flip-flop a, or a and b;
\* each of them feeds s or c; s is a flip-flop or a conjunction and feeds c;
\* the conjunction c feeds rx
Networks ==
    {<<Line("broadcaster", "Broadcast", origins),
       Line("a", "FlipFlop", <<x>>),
       Line("b", "FlipFlop", <<y>>),
       Line("s", kind, <<"c">>),
       Line("c", "Conjunction", <<"rx">>)>> :
       origins \in {<<"a">>, <<"a", "b">>, <<"b", "a">>},
       x \in {"s", "c"}, y \in {"s", "c"},
       kind \in {"FlipFlop", "Conjunction"}}

\* parse_input: the ids of the lines
IdsOf(lines) == {lines[k].id : k \in 1 .. Len(lines)}

\* parse_input: forward maps an id to the dests of its line
forward_of(lines) ==
    [id \in IdsOf(lines) |-> lines[CHOOSE k \in 1 .. Len(lines) : lines[k].id = id].dests]

\* parse_input: the ids whose line names dest, in the order of the lines
RECURSIVE reverse_of(_, _)
reverse_of(lines, dest) ==
    IF lines = <<>>
      THEN <<>>
      ELSE (IF Contains(Head(lines).dests, dest) THEN <<Head(lines).id>> ELSE <<>>)
             \o reverse_of(Tail(lines), dest)

\* parse_input: a module as constructed, then a conjunction's memory extended
\* with Low for every input ("None" for a source that is no input)
module_of(lines, line) ==
    [kind |-> line.kind,
     on |-> FALSE,
     memory |-> [src \in Sources |->
                   IF line.kind = "Conjunction" /\ Contains(reverse_of(lines, line.id), src)
                     THEN "Low"
                     ELSE "None"]]

registry_of(lines) ==
    [id \in IdsOf(lines) |->
       module_of(lines, lines[CHOOSE k \in 1 .. Len(lines) : lines[k].id = id])]

\* parse_input: expect("Module has no inputs") fails
NoInputs(lines) ==
    \E k \in 1 .. Len(lines) :
       lines[k].kind = "Conjunction" /\ reverse_of(lines, lines[k].id) = <<>>

Event(source, dest, pulse) == [source |-> source, dest |-> dest, pulse |-> pulse]

\* fn button_event
button_event(target) == Event("button", target, "Low")

\* Module::handle: the module afterwards, the pulse sent ("None" for none), and
\* whether the conjunction panics on an unexpected source
handle(module, event) ==
    CASE module.kind = "FlipFlop" ->
           IF event.pulse = "High"
             THEN [module |-> module, pulse |-> "None", panic |-> FALSE]
             ELSE [module |-> [module EXCEPT !.on = ~module.on],
                   pulse |-> IF module.on THEN "Low" ELSE "High",
                   panic |-> FALSE]
      [] module.kind = "Conjunction" ->
           IF module.memory[event.source] = "None"
             THEN [module |-> module, pulse |-> "None", panic |-> TRUE]
             ELSE LET memory == [module.memory EXCEPT ![event.source] = event.pulse]
                  IN  [module |-> [module EXCEPT !.memory = memory],
                       pulse |-> IF \A src \in Sources : memory[src] \in {"High", "None"}
                                   THEN "Low"
                                   ELSE "High",
                       panic |-> FALSE]
      [] module.kind = "Broadcast" ->
           [module |-> module, pulse |-> event.pulse, panic |-> FALSE]

\* the events one module sends to its dests
Sent(id, dests, pulse) == [k \in 1 .. Len(dests) |-> Event(id, dests[k], pulse)]

\* the body of both event loops: registry.get_mut(id).and_then(handle), then
\* events.extend
Deliver(registry, forward, events, event) ==
    IF event.dest \notin DOMAIN registry
      THEN [registry |-> registry, events |-> events, panic |-> FALSE]
      ELSE LET h == handle(registry[event.dest], event)
           IN  [registry |-> [registry EXCEPT ![event.dest] = h.module],
                events |-> IF h.pulse = "None" \/ h.panic
                             THEN events
                             ELSE events \o Sent(event.dest, forward[event.dest], h.pulse),
                panic |-> h.panic]

RECURSIVE gcd(_, _)
gcd(x, y) == IF y = 0 THEN x ELSE gcd(y, x % y)

\* num::integer::lcm
lcm(x, y) == IF x = 0 \/ y = 0 THEN 0 ELSE (x * y) \div gcd(x, y)

\* reduce(num::integer::lcm) of a sequence that is not empty
RECURSIVE ReduceLcm(_)
ReduceLcm(periods) ==
    IF Len(periods) = 1
      THEN periods[1]
      ELSE lcm(periods[1], ReduceLcm(Tail(periods)))

Panic20 == [kind |-> "Panic", val |-> 0]
Bail20 == [kind |-> "Err", val |-> 0]

vars20 == <<vars17, day10, day14, day16, day21>>

\* main of day20 before the input is read
Init20 ==
    /\ Idle17
    /\ day10 = Idle /\ day14 = Idle /\ day16 = Idle /\ day21 = Idle
    /\ \E lines \in Networks :
         \/ day20 = [pc |-> "parse", input |-> lines, part |-> "Part2", n |-> 0,
                     registry |-> <<>>, origins |-> <<>>, source |-> "button",
                     dest |-> "button", events |-> <<>>, count |-> 0,
                     received |-> FALSE, periods |-> <<>>, high |-> 0, low |-> 0,
                     result |-> [kind |-> "None", val |-> 0]]
         \/ \E n \in 0 .. MaxPresses :
               day20 = [pc |-> "parse", input |-> lines, part |-> "Part1", n |-> n,
                        registry |-> <<>>, origins |-> <<>>, source |-> "button",
                        dest |-> "button", events |-> <<>>, count |-> 0,
                        received |-> FALSE, periods |-> <<>>, high |-> 0, low |-> 0,
                        result |-> [kind |-> "None", val |-> 0]]

\* main, line 207, and for part 2 lines 241-247: parse_input, then the origins
\* and the module that feeds rx
Parse20 ==
    /\ day20.pc = "parse"
    /\ LET lines == day20.input
       IN  day20' =
             IF NoInputs(lines)
               THEN [day20 EXCEPT !.pc = "done", !.result = Panic20]
               ELSE IF day20.part = "Part1"
                      THEN [day20 EXCEPT !.pc = "p1press", !.registry = registry_of(lines)]
                      ELSE IF "broadcaster" \notin IdsOf(lines)
                                \/ reverse_of(lines, "rx") = <<>>
                             THEN [day20 EXCEPT !.pc = "done",
                                                !.registry = registry_of(lines),
                                                !.result = Bail20]
                             ELSE [day20 EXCEPT !.pc = "call",
                                                !.registry = registry_of(lines),
                                                !.origins = forward_of(lines)["broadcaster"],
                                                !.dest = reverse_of(lines, "rx")[1]]
    /\ UNCHANGED vars20

\* main, Part1: one more of the n presses
PressP1 ==
    /\ day20.pc = "p1press"
    /\ day20.count < day20.n
    /\ day20' = [day20 EXCEPT !.pc = "p1events", !.count = @ + 1,
                              !.events = <<button_event("broadcaster")>>]
    /\ UNCHANGED vars20

\* main, Part1: one event of the inner loop
HandleP1 ==
    /\ day20.pc = "p1events"
    /\ LET event == Head(day20.events)
           d == Deliver(day20.registry, forward_of(day20.input), Tail(day20.events), event)
           counted == [day20 EXCEPT !.high = IF event.pulse = "High" THEN @ + 1 ELSE @,
                                    !.low = IF event.pulse = "Low" THEN @ + 1 ELSE @]
       IN  day20' = IF d.panic
                      THEN [counted EXCEPT !.pc = "done", !.events = d.events,
                                           !.result = Panic20]
                      ELSE [counted EXCEPT !.pc = IF d.events = <<>>
                                                    THEN "p1press"
                                                    ELSE "p1events",
                                           !.registry = d.registry,
                                           !.events = d.events]
    /\ UNCHANGED vars20

\* main, Part1: the product of the counts that exist
FinishP1 ==
    /\ day20.pc = "p1press"
    /\ day20.count >= day20.n
    /\ day20' = [day20 EXCEPT
                   !.pc = "done",
                   !.result = [kind |-> "Ok",
                               val |-> (IF day20.high = 0 THEN 1 ELSE day20.high)
                                         * (IF day20.low = 0 THEN 1 ELSE day20.low)]]
    /\ UNCHANGED vars20

\* determine_activation_period, lines 169-171, for the next origin: the
\* registry is the caller's, as the last call left it
Call20 ==
    /\ day20.pc = "call"
    /\ day20.origins # <<>>
    /\ day20' = [day20 EXCEPT !.pc = "press", !.source = Head(day20.origins),
                              !.origins = Tail(@), !.events = <<>>, !.count = 0,
                              !.received = FALSE]
    /\ UNCHANGED vars20

\* determine_activation_period, lines 172-174: one more press
Press20 ==
    /\ day20.pc = "press"
    /\ ~day20.received
    /\ day20.count < MaxPresses
    /\ day20' = [day20 EXCEPT !.pc = "events", !.count = @ + 1,
                              !.events = Append(@, button_event(day20.source))]
    /\ UNCHANGED vars20

\* determine_activation_period, lines 176-198: one event of the inner loop
Handle20 ==
    /\ day20.pc = "events"
    /\ LET event == Head(day20.events)
       IN  IF event.dest = day20.dest /\ event.pulse = "High"
             THEN day20' = [day20 EXCEPT !.pc = "press", !.events = Tail(@),
                                         !.received = TRUE]
             ELSE LET d == Deliver(day20.registry, forward_of(day20.input),
                                   Tail(day20.events), event)
                  IN  day20' = IF d.panic
                                 THEN [day20 EXCEPT !.pc = "done", !.events = d.events,
                                                    !.result = Panic20]
                                 ELSE [day20 EXCEPT !.pc = IF d.events = <<>>
                                                             THEN "press"
                                                             ELSE "events",
                                                    !.registry = d.registry,
                                                    !.events = d.events]
    /\ UNCHANGED vars20

\* determine_activation_period, line 201: the count is returned
Return20 ==
    /\ day20.pc = "press"
    /\ day20.received
    /\ day20' = [day20 EXCEPT !.pc = "call", !.periods = Append(@, day20.count),
                              !.events = <<>>]
    /\ UNCHANGED vars20

\* main, lines 249-259: the lcm of the periods is printed
Finish20 ==
    /\ day20.pc = "call"
    /\ day20.origins = <<>>
    /\ day20' = [day20 EXCEPT
                   !.pc = "done",
                   !.result = IF day20.periods = <<>>
                                THEN Panic20
                                ELSE [kind |-> "Ok", val |-> ReduceLcm(day20.periods)]]
    /\ UNCHANGED vars20

Next20 ==
    Parse20 \/ PressP1 \/ HandleP1 \/ FinishP1
      \/ Call20 \/ Press20 \/ Handle20 \/ Return20 \/ Finish20

Pulses == Init20 /\ [][Next20]_vars

\* the events of one press run out from the given registry: the registry
\* afterwards and whether a High pulse for output came out of the queue
RECURSIVE RunEvents(_, _, _, _)
RunEvents(registry, forward, events, output) ==
    IF events = <<>>
      THEN [registry |-> registry, received |-> FALSE]
      ELSE LET event == Head(events)
           IN  IF event.dest = output /\ event.pulse = "High"
                 THEN [registry |-> registry, received |-> TRUE]
                 ELSE LET d == Deliver(registry, forward, Tail(events), event)
                      IN  RunEvents(d.registry, forward, d.events, output)

\* the presses counted from the given registry, 0 when more than MaxPresses
RECURSIVE PeriodFrom(_, _, _, _, _)
PeriodFrom(registry, forward, source, output, count) ==
    IF count >= MaxPresses
      THEN 0
      ELSE LET r == RunEvents(registry, forward, <<button_event(source)>>, output)
           IN  IF r.received
                 THEN count + 1
                 ELSE PeriodFrom(r.registry, forward, source, output, count + 1)

\* the period of an origin counted from the modules' initial state
FreshPeriod(source) ==
    PeriodFrom(registry_of(day20.input), forward_of(day20.input), source, day20.dest, 0)

\* C30: every call of determine_activation_period starts from the modules'
\* initial state (every flip-flop off, every conjunction input Low), and the
\* period it returns is the one counted from that state, whatever the calls
\* before it did
C30_EachPeriodCountsFromInitialState ==
    /\ (day20.pc = "press" /\ day20.count = 0) =>
         day20.registry = registry_of(day20.input)
    /\ (day20.pc = "call" /\ day20.periods # <<>>) =>
         day20.periods[Len(day20.periods)] = FreshPeriod(day20.source)

====
